---- MODULE Spec2Model ----
(***************************************************************************)
(* Model of the OLX apartment poller (aparts.py): one process that, per    *)
(* poll cycle, reads the persisted maximum refresh time from redis, walks  *)
(* the paginated listing through the get_ads generator, collects the new   *)
(* ads, sends them in reversed order to the chat and advances the          *)
(* persisted maximum refresh time after each successful send.              *)
(***************************************************************************)
EXTENDS Integers, Sequences, FiniteSets

\* ---------------------------------------------------------------- bounds
MaxAds == 3        \* most ads in the listing
MaxTime == 2       \* refresh times are 1..MaxTime
PageSize == 2      \* ads per listing page
MaxRules == 2      \* most rules in HIGHLIGHT_RULES
MaxParams == 2     \* most attributes in an ad document's params
MaxPhotos == 12    \* most photos of an ad
MaxPublished == 1  \* most ads published while the poller runs

\* ------------------------------------------------------------- constants
MinTime == 0           \* datetime.min, below every refresh time
BackoffSeconds == 60   \* time.sleep(60) after a 429
MaxMedia == 10         \* photo_urls[:10] in _get_media_json

None == <<"None">>

Times == 1..MaxTime

\* An ad of the listing; its url is its position in the listing (unique).
AdKinds == [refreshed : Times, is_promoted : BOOLEAN]

Listings == UNION {[1..n -> AdKinds] : n \in 0..MaxAds}

\* Responses of requests.get: 200, 429, another HTTP error status, or an
\* exception raised by the transport.
Responses == {"ok", "rate", "err", "exc"}

\* Attribute values and highlight tags, as strings.
Cat == <<"c">>
Dog == <<"d">>
Fish == <<"f">>

Scalar(v) == [list |-> FALSE, v |-> <<v>>]
List(vs) == [list |-> TRUE, v |-> vs]

\* Entries of a document's params: a mapped scalar, an unmapped scalar, a list
\* with mapped and unmapped members, and an attribute with another key.
ParamKinds ==
    {[key |-> "pets", normalizedValue |-> Scalar(Cat)],
     [key |-> "pets", normalizedValue |-> Scalar(Fish)],
     [key |-> "pets", normalizedValue |-> List(<<Dog, Fish, Cat>>)],
     [key |-> "floor", normalizedValue |-> Scalar(Cat)]}

ParamLists == UNION {[1..n -> ParamKinds] : n \in 0..MaxParams}

\* Nested fields of a document: title and location.city; location without
\* city; no location.
Title == << <<"title">>, <<"a", "B">> >>

PropsKinds ==
    {[dicts |-> {<<"location">>}, leaves |-> {Title, << <<"location", "city">>, <<"k">> >>}],
     [dicts |-> {<<"location">>}, leaves |-> {Title}],
     [dicts |-> {}, leaves |-> {Title}]}

Docs == [params : ParamLists, props : PropsKinds]

\* The document of an ad when no rule is configured.
PlainDoc ==
    [params |-> <<>>,
     props |-> [dicts |-> {<<"location">>},
                leaves |-> {Title, << <<"location", "city">>, <<"k">> >>}]]

\* Rule descriptors of HIGHLIGHT_RULES: an attribute rule, a path rule of each
\* comparator, a descriptor of unknown type and a path rule of unknown
\* comparator. Tags are "a", "ab" and "c".
RuleChoices ==
    {[type |-> "param", key |-> "pets", path |-> <<>>, match |-> "none",
      valueMap |-> << <<Cat, <<"a">> >>, <<Dog, <<"a", "b">> >> >>],
     [type |-> "prop", key |-> "none", path |-> <<"location", ".", "city">>,
      match |-> "exact", valueMap |-> << << <<"k">>, <<"c">> >> >>],
     [type |-> "prop", key |-> "none", path |-> <<"title">>,
      match |-> "contains",
      valueMap |-> << << <<"b">>, <<"a", "b">> >>, << <<"z">>, <<"c">> >> >>],
     [type |-> "regex", key |-> "none", path |-> <<"title">>,
      match |-> "exact", valueMap |-> << << <<"k">>, <<"c">> >> >>],
     [type |-> "prop", key |-> "none", path |-> <<"title">>,
      match |-> "startswith", valueMap |-> << << <<"a">>, <<"c">> >> >>]}

Configs == UNION {[1..n -> RuleChoices] : n \in 0..MaxRules}

\* The photo urls of an ad with n photos.
PhotoUrls(n) == [i \in 1..n |-> <<"photo", i>>]

\* ------------------------------------------------------------- variables
VARIABLES
    listing,            \* the source's ads, in source order
    docs,               \* the source's raw document of each ad (params, nested fields)
    photos,             \* the source's photo urls of each ad
    published,          \* ads published at the head of the listing since the start
    config,             \* json.loads(HIGHLIGHT_RULES_CONFIG), <<>> when it is ''
    HIGHLIGHT_RULES,    \* the parsed rules
    redis,              \* value under MAX_REFRESH_TIME_REDIS_KEY, or None
    pc,                 \* where the process is
    cause,              \* why the process ended ("none" while it runs)
    max_refresh_time,   \* post_new_ads local
    new_ads,            \* post_new_ads local
    page,               \* get_ads local
    olxAds,             \* get_ads local: ads of the fetched page
    totalPages,         \* state['listing']['listing']['totalPages'] of the fetched page
    idx,                \* get_ads: position of the for loop in olxAds
    sendIdx,            \* post_new_ads: position of the send loop in reversed(new_ads)
    wStart,             \* history: maximum refresh time read at the start of the cycle
    absentStart,        \* history: redis held no value when the cycle read it
    fetched,            \* history: pages fetched in this cycle, in order
    extracted,          \* history: what each rule's extract returned for the last ad
    sent,               \* history: send attempts of this cycle, in order
    slept,              \* history: seconds of backoff slept in this cycle
    writes,             \* history: redis writes of this cycle
    delivered,          \* history: urls delivered (200) since the start
    confirmed,          \* history: urls delivered whose watermark step completed
    collectedEver,      \* history: urls ever appended to new_ads
    lastDone,           \* history: the last cycle that ended ran to completion
    afterDone           \* history: this cycle directly follows a completed one

vars == <<listing, docs, photos, published, config, HIGHLIGHT_RULES, redis, pc,
          cause, max_refresh_time, new_ads, page, olxAds, totalPages, idx,
          sendIdx, wStart, absentStart, fetched, extracted, sent, slept,
          writes, delivered, confirmed, collectedEver, lastDone, afterDone>>

\* What the process does not write: the listing source and the configuration.
source == <<listing, docs, photos, published, config>>

hist == <<delivered, confirmed, collectedEver>>

\* ------------------------------------------------------- watermark store
Isoformat(t) == <<"iso", t>>
Fromisoformat(s) == s[2]

\* ------------------------------------------------------- listing source
\* The raw ad document the source returns for listing position p. The url of
\* an ad stays with it when ads are published above it.
RawAt(p) ==
    [url |-> p - published,
     lastRefreshTime |-> Isoformat(listing[p].refreshed),
     isPromoted |-> listing[p].is_promoted,
     photos |-> photos[p],
     params |-> docs[p].params,
     props |-> docs[p].props]

\* get_ads, lines 133-142: the Ad built from a raw document and its
\* highlights (title, price and creation time play no part and are left out).
BuildAd(olxAd, highlights) ==
    [url |-> olxAd.url,
     refreshed |-> Fromisoformat(olxAd.lastRefreshTime),
     is_promoted |-> olxAd.isPromoted,
     photo_urls |-> olxAd.photos,
     highlights |-> highlights]

\* The Ad get_ads builds for listing position p when no rule emits a tag.
AdAt(p) == BuildAd(RawAt(p), <<>>)

\* Number of pages the source reports.
SourceTotalPages == (Len(listing) + PageSize - 1) \div PageSize

\* The ads the source returns for page n, in source order.
SourcePage(n) ==
    LET lo == (n - 1) * PageSize + 1
        hi == IF n * PageSize < Len(listing) THEN n * PageSize ELSE Len(listing)
    IN  [i \in 1..(IF hi >= lo THEN hi - lo + 1 ELSE 0) |-> RawAt(lo + i - 1)]

\* datetime.max taken for datetime.min: an absent watermark is the latest time.
GetMaxRefreshTime_AbsentIsMax(value) ==
    IF value = None THEN MaxTime ELSE Fromisoformat(value)

\* get_max_refresh_time
GetMaxRefreshTime(value) ==
    IF value = None THEN MinTime ELSE Fromisoformat(value)

\* update_max_refresh_time
UpdateMaxRefreshTime(value) == Isoformat(value)

\* ------------------------------------------------------------ highlights.py
\* Strings that are matched or looked up are sequences of characters.

\* dict.get(v, ''): a value map is the sequence of the dict's (key, tag) items.
DictGet(value_map, v) ==
    LET I == {i \in 1..Len(value_map) : value_map[i][1] = v}
    IN  IF I = {} THEN <<>> ELSE value_map[CHOOSE i \in I : TRUE][2]

\* line 15: ''.join(map(lambda v: self._value_map.get(v, ''), value))
RECURSIVE JoinMapped(_, _)
JoinMapped(value_map, values) ==
    IF values = <<>> THEN <<>>
    ELSE DictGet(value_map, Head(values)) \o JoinMapped(value_map, Tail(values))

\* ParamRule.extract, lines 11-17, over the attributes from the given one on.
\* A normalizedValue is [list, v]: v is the list, or holds the one scalar.
RECURSIVE ParamExtractFrom(_, _)
ParamExtractFrom(rule, params) ==
    IF params = <<>> THEN <<>>
    ELSE LET param == Head(params)
             value == param.normalizedValue
             here == IF param.key = rule.key
                     THEN IF value.list
                          THEN JoinMapped(rule.value_map, value.v)
                          ELSE DictGet(rule.value_map, value.v[1])
                     ELSE <<>>
         IN  here \o ParamExtractFrom(rule, Tail(params))

\* ParamRule.extract that returns at the first attribute with the rule's key.
RECURSIVE ParamExtractFirst(_, _)
ParamExtractFirst(rule, params) ==
    IF params = <<>> THEN <<>>
    ELSE IF Head(params).key = rule.key
         THEN ParamExtractFrom(rule, <<Head(params)>>)
         ELSE ParamExtractFirst(rule, Tail(params))

ParamExtract_FirstAttribute(rule, olxAd) == ParamExtractFirst(rule, olxAd.params)

\* ParamRule.extract
ParamExtract(rule, olxAd) == ParamExtractFrom(rule, olxAd.params)

\* PropRule._get_prop_value, lines 42-46. The nested fields of a document are
\* props.dicts, the paths that hold a dict, and props.leaves, the (path, value)
\* pairs that hold a string. The walk is at the dict `at` with `rest` to go.
RECURSIVE Resolve(_, _, _)
Resolve(props, at, rest) ==
    IF rest = <<>> THEN [raised |-> FALSE, isStr |-> FALSE, value |-> <<>>]
    ELSE LET next == Append(at, Head(rest))
             L == {l \in props.leaves : l[1] = next}
         IN  IF next \in props.dicts THEN Resolve(props, next, Tail(rest))
             ELSE IF L # {} /\ Tail(rest) = <<>>
                  THEN [raised |-> FALSE, isStr |-> TRUE,
                        value |-> (CHOOSE l \in L : TRUE)[2]]
                  ELSE [raised |-> TRUE, isStr |-> FALSE, value |-> <<>>]

\* _get_prop_value that returns '' for a missing field instead of raising.
GetPropValue_MissingIsEmpty(path, olxAd) ==
    LET r == Resolve(olxAd.props, <<>>, path)
    IN  IF r.raised THEN [raised |-> FALSE, isStr |-> TRUE, value |-> <<>>] ELSE r

GetPropValue(path, olxAd) == Resolve(olxAd.props, <<>>, path)

Lower(c) == CASE c = "A" -> "a" [] c = "B" -> "b" [] OTHER -> c

LowerStr(s) == [i \in 1..Len(s) |-> Lower(s[i])]

IsSubstring(x, y) ==
    \E k \in 0..(Len(y) - Len(x)) : SubSeq(y, k + 1, k + Len(x)) = x

\* line 27: re.search(expected, actual, re.IGNORECASE), for a pattern without
\* regex metacharacters.
SearchIgnoreCase(expected, actual) ==
    IsSubstring(LowerStr(expected), LowerStr(actual))

\* lines 26-29: self._match(expected, actual) on a resolved value.
Match(match, expected, actual) ==
    IF match = "contains"
    THEN SearchIgnoreCase(expected, actual.value)
    ELSE actual.isStr /\ actual.value = expected

\* PropRule.extract, lines 36-38, over the items from the given one on.
RECURSIVE PropExtractFrom(_, _, _)
PropExtractFrom(rule, items, prop_value) ==
    IF items = <<>> THEN <<>>
    ELSE (IF Match(rule.match, Head(items)[1], prop_value)
          THEN Head(items)[2] ELSE <<>>)
         \o PropExtractFrom(rule, Tail(items), prop_value)

\* PropRule.extract: raises when the path does not resolve, or when re.search
\* is handed a value that is not a string.
PropExtract(rule, olxAd) ==
    LET prop_value == GetPropValue(rule.path, olxAd)
    IN  IF prop_value.raised
           \/ (rule.match = "contains" /\ ~prop_value.isStr /\ rule.value_map # <<>>)
        THEN [raised |-> TRUE, out |-> <<>>]
        ELSE [raised |-> FALSE,
              out |-> PropExtractFrom(rule, rule.value_map, prop_value)]

\* rule.extract(olxAd) of either class.
Extract(rule, olxAd) ==
    IF rule.cls = "ParamRule"
    THEN [raised |-> FALSE, out |-> ParamExtract(rule, olxAd)]
    ELSE PropExtract(rule, olxAd)

\* line 24: path.split('.'), the path given as names and "." separators.
SplitDots(path) == SelectSeq(path, LAMBDA t : t # ".")

\* ParamRule.__init__
NewParamRule(key, value_map) ==
    [cls |-> "ParamRule", key |-> key, path |-> <<>>, match |-> "none",
     value_map |-> value_map]

\* PropRule.__init__, lines 24-29
NewPropRule(path, match, value_map) ==
    [cls |-> "PropRule", key |-> "none", path |-> SplitDots(path),
     match |-> match, value_map |-> value_map]

\* PropRule.__init__, lines 26-31: the comparator is not known.
PropRuleInitRaises(match) == match \notin {"contains", "exact"}

\* parse_rules that skips what it does not know instead of raising.
RECURSIVE ParseRulesLenient(_, _)
ParseRulesLenient(conf, rules) ==
    IF conf = <<>> THEN [raised |-> FALSE, rules |-> rules]
    ELSE LET rc == Head(conf) IN
         IF rc.type = "param"
         THEN ParseRulesLenient(Tail(conf),
                                Append(rules, NewParamRule(rc.key, rc.valueMap)))
         ELSE IF rc.type = "prop" /\ ~PropRuleInitRaises(rc.match)
         THEN ParseRulesLenient(Tail(conf),
                                Append(rules, NewPropRule(rc.path, rc.match, rc.valueMap)))
         ELSE ParseRulesLenient(Tail(conf), rules)

ParseRules_SkipsUnknown(conf) == ParseRulesLenient(conf, <<>>)

\* parse_rules, lines 53-63, with the rules built so far.
RECURSIVE ParseRulesFrom(_, _)
ParseRulesFrom(conf, rules) ==
    IF conf = <<>> THEN [raised |-> FALSE, rules |-> rules]
    ELSE LET rc == Head(conf) IN
         IF rc.type = "param"
         THEN ParseRulesFrom(Tail(conf),
                             Append(rules, NewParamRule(rc.key, rc.valueMap)))
         ELSE IF rc.type = "prop"
         THEN IF PropRuleInitRaises(rc.match)
              THEN [raised |-> TRUE, rules |-> <<>>]
              ELSE ParseRulesFrom(Tail(conf),
                                  Append(rules, NewPropRule(rc.path, rc.match, rc.valueMap)))
         ELSE [raised |-> TRUE, rules |-> <<>>]

\* parse_rules
ParseRules(conf) == ParseRulesFrom(conf, <<>>)

\* ------------------------------------------------ get_ads: the highlights
\* lines 129-131: the outputs of the rules, in order, up to the first that
\* raises.
RECURSIVE ExtractAll(_, _)
ExtractAll(rules, olxAd) ==
    IF rules = <<>> THEN [raised |-> FALSE, outs |-> <<>>]
    ELSE LET first == Extract(Head(rules), olxAd) IN
         IF first.raised THEN [raised |-> TRUE, outs |-> <<>>]
         ELSE LET others == ExtractAll(Tail(rules), olxAd) IN
              [raised |-> others.raised,
               outs |-> IF others.raised THEN <<>> ELSE <<first.out>> \o others.outs]

\* highlights += ... over the outputs
RECURSIVE Concat(_)
Concat(outs) == IF outs = <<>> THEN <<>> ELSE Head(outs) \o Concat(Tail(outs))

\* The strings that hold each of the given characters once.
Arrangements(C) ==
    {f \in [1..Cardinality(C) -> C] :
        \A i, j \in 1..Cardinality(C) : i # j => f[i] # f[j]}

\* line 141: ''.join(set(highlights)). A set of a str is the set of its
\* characters, and its iteration order is not defined: any arrangement of the
\* distinct characters can come out.
JoinSet(highlights) ==
    Arrangements({highlights[i] : i \in 1..Len(highlights)})

\* ------------------------------------------------------ Ad.to_send_query
\* urllib.parse.quote
Quote(x) == <<"quoted", x>>

\* json.dumps
JsonDumps(x) == <<"json", x>>

\* Ad._get_text, lines 77-84 (title, price and creation time left out)
GetText(ad) == <<"text", ad.url, ad.refreshed, ad.highlights>>

\* _get_media_json without the cut to ten photos.
GetMediaJson_NoCap(ad, caption) ==
    JsonDumps([i \in 1..Len(ad.photo_urls) |->
        IF i = 1
        THEN [type |-> "photo", media |-> ad.photo_urls[i],
              caption |-> <<caption>>, parse_mode |-> <<"MarkdownV2">>]
        ELSE [type |-> "photo", media |-> ad.photo_urls[i],
              caption |-> <<>>, parse_mode |-> <<>>]])

\* Ad._get_media_json, lines 66-75. An item without a caption or parse_mode
\* key holds <<>> there.
GetMediaJson(ad, caption) ==
    LET urls == IF Len(ad.photo_urls) <= MaxMedia
                THEN ad.photo_urls
                ELSE SubSeq(ad.photo_urls, 1, MaxMedia)
    IN  JsonDumps([i \in 1..Len(urls) |->
            IF i = 1
            THEN [type |-> "photo", media |-> urls[i],
                  caption |-> <<caption>>, parse_mode |-> <<"MarkdownV2">>]
            ELSE [type |-> "photo", media |-> urls[i],
                  caption |-> <<>>, parse_mode |-> <<>>]])

\* Ad.to_send_query, lines 54-64. A parameter the method does not take
\* holds <<>>.
ToSendQuery(ad) ==
    LET text == GetText(ad) IN
    IF Len(ad.photo_urls) = 0
    THEN [method |-> "sendMessage", text |-> <<Quote(text)>>, photo |-> <<>>,
          caption |-> <<>>, media |-> <<>>]
    ELSE IF Len(ad.photo_urls) = 1
    THEN [method |-> "sendPhoto", text |-> <<>>, photo |-> <<Quote(ad.photo_urls[1])>>,
          caption |-> <<Quote(text)>>, media |-> <<>>]
    ELSE [method |-> "sendMediaGroup", text |-> <<>>, photo |-> <<>>,
          caption |-> <<>>, media |-> <<Quote(GetMediaJson(ad, text))>>]

\* --------------------------------------------------------- post_new_ads
\* IsStop with < for <=: an organic ad refreshed exactly at the watermark
\* does not halt the walk.
IsStop_Strict(ad, w) == ~ad.is_promoted /\ ad.refreshed < w

\* IsStop without the promotion test: any old ad halts the walk.
IsStop_IgnoresPromotion(ad, w) == ad.refreshed <= w

\* line 171: the stop condition of the walk
IsStop(ad, w) == ~ad.is_promoted /\ ad.refreshed <= w

\* IsNew with >= for >.
IsNew_OrEqual(ad, w) == ad.refreshed >= w

\* line 174: the ad is a candidate
IsNew(ad, w) == ad.refreshed > w

\* reversed() left out: the candidates are sent in source order.
Reversed_Identity(s) == s

\* line 182: reversed(new_ads)
RECURSIVE Reversed(_)
Reversed(s) == IF s = <<>> THEN <<>> ELSE Append(Reversed(Tail(s)), Head(s))

\* The retry taken after any failed response.
IsRateLimited_AnyFailure(resp) == resp # "ok"

\* line 186: the response asks for the single retry
IsRateLimited(resp) == resp = "rate"

\* line 190: response.raise_for_status() raises
RaisesForStatus(resp) == resp # "ok"

\* The guard of line 192 left out: every delivery writes the watermark.
ShouldAdvance_Always(ad, w) == TRUE

\* The watermark never advanced.
ShouldAdvance_Never(ad, w) == FALSE

\* line 192: the watermark is advanced
ShouldAdvance(ad, w) == ad.refreshed > w

\* Off by one: the walk ends one page early.
IsLastPage_OneEarly(p, total) == p + 1 >= total

\* Off by one the other way: one page past the last is fetched.
IsLastPage_OneLate(p, total) == p > total

\* line 144: the fetched page is the last one
IsLastPage(p, total) == p >= total

\* The process ends: its locals are gone, redis and the history stay.
Die(why) ==
    /\ pc' = "dead"
    /\ cause' = why
    /\ max_refresh_time' = MinTime
    /\ new_ads' = <<>>
    /\ page' = 1
    /\ olxAds' = <<>>
    /\ totalPages' = 0
    /\ idx' = 1
    /\ sendIdx' = 1
    /\ HIGHLIGHT_RULES' = <<>>
    /\ lastDone' = FALSE

\* The process at its start, before line 34.
Boot ==
    /\ pc = "import"
    /\ cause = "none"
    /\ HIGHLIGHT_RULES = <<>>
    /\ max_refresh_time = MinTime
    /\ new_ads = <<>>
    /\ page = 1
    /\ olxAds = <<>>
    /\ totalPages = 0
    /\ idx = 1
    /\ sendIdx = 1
    /\ wStart = MinTime
    /\ absentStart = FALSE
    /\ fetched = <<>>
    /\ extracted = <<>>
    /\ sent = <<>>
    /\ slept = 0
    /\ writes = 0
    /\ delivered = {}
    /\ confirmed = {}
    /\ collectedEver = {}
    /\ lastDone = FALSE
    /\ afterDone = FALSE
    /\ published = 0

Init ==
    /\ listing \in Listings
    /\ redis \in {None} \cup {Isoformat(t) : t \in Times}
    /\ docs = [p \in 1..Len(listing) |-> PlainDoc]
    /\ photos = [p \in 1..Len(listing) |-> <<>>]
    /\ config = <<>>
    /\ Boot

\* Module start-up, lines 34-36: the rules are parsed before __main__ runs.
Startup ==
    /\ pc = "import"
    /\ IF config = <<>>
       THEN /\ pc' = "start"
            /\ UNCHANGED <<cause, HIGHLIGHT_RULES, max_refresh_time, new_ads,
                           page, olxAds, totalPages, idx, sendIdx, lastDone>>
       ELSE LET parsed == ParseRules(config) IN
            IF parsed.raised
            THEN Die("config")
            ELSE /\ pc' = "start"
                 /\ HIGHLIGHT_RULES' = parsed.rules
                 /\ UNCHANGED <<cause, max_refresh_time, new_ads, page, olxAds,
                                totalPages, idx, sendIdx, lastDone>>
    /\ UNCHANGED <<source, redis, wStart, absentStart, fetched, extracted, sent,
                   slept, writes, hist, afterDone>>

\* post_new_ads, lines 164-170: read the watermark, start the generator.
StartCycle ==
    /\ pc = "start"
    /\ max_refresh_time' = GetMaxRefreshTime(redis)
    /\ wStart' = GetMaxRefreshTime(redis)
    /\ absentStart' = (redis = None)
    /\ new_ads' = <<>>
    /\ page' = 1
    /\ olxAds' = <<>>
    /\ totalPages' = 0
    /\ idx' = 1
    /\ sendIdx' = 1
    /\ fetched' = <<>>
    /\ extracted' = <<>>
    /\ sent' = <<>>
    /\ slept' = 0
    /\ writes' = 0
    /\ afterDone' = lastDone
    /\ pc' = "fetch"
    /\ UNCHANGED <<source, redis, cause, HIGHLIGHT_RULES, hist, lastDone>>

\* get_ads, lines 113-126: fetch the page and read its ads.
FetchPage ==
    /\ pc = "fetch"
    /\ olxAds' = SourcePage(page)
    /\ totalPages' = SourceTotalPages
    /\ idx' = 1
    /\ fetched' = Append(fetched, page)
    /\ pc' = "iter"
    /\ UNCHANGED <<source, redis, cause, HIGHLIGHT_RULES, max_refresh_time,
                   new_ads, page, sendIdx, wStart, absentStart, extracted, sent,
                   slept, writes, hist, lastDone, afterDone>>

\* get_ads, lines 117-126: the request or the parse of the page raises.
FetchFail ==
    /\ pc = "fetch"
    /\ Die("transport")
    /\ fetched' = Append(fetched, page)
    /\ UNCHANGED <<source, redis, wStart, absentStart, extracted, sent, slept,
                   writes, hist, afterDone>>

\* get_ads lines 128-142 and post_new_ads lines 170-175: the generator runs
\* the rules on the next document of the page, yields its Ad, and the loop
\* body handles it. A rule that raises ends the process.
WalkAd ==
    /\ pc = "iter"
    /\ idx <= Len(olxAds)
    /\ LET olxAd == olxAds[idx]
           ex == ExtractAll(HIGHLIGHT_RULES, olxAd)
       IN
       /\ extracted' = ex.outs
       /\ IF ex.raised
          THEN /\ Die("document")
               /\ UNCHANGED collectedEver
          ELSE \E highlights \in JoinSet(Concat(ex.outs)) :
               LET ad == BuildAd(olxAd, highlights) IN
               /\ IF IsStop(ad, max_refresh_time)
                  THEN /\ pc' = "send"
                       /\ UNCHANGED <<new_ads, idx, collectedEver>>
                  ELSE /\ pc' = "iter"
                       /\ idx' = idx + 1
                       /\ IF IsNew(ad, max_refresh_time)
                          THEN /\ new_ads' = Append(new_ads, ad)
                               /\ collectedEver' = collectedEver \cup {ad.url}
                          ELSE UNCHANGED <<new_ads, collectedEver>>
               /\ UNCHANGED <<cause, HIGHLIGHT_RULES, max_refresh_time, page,
                              olxAds, totalPages, sendIdx, lastDone>>
    /\ UNCHANGED <<source, redis, wStart, absentStart, fetched, sent, slept,
                   writes, delivered, confirmed, afterDone>>

\* get_ads, lines 144-147: the page is exhausted.
NextPage ==
    /\ pc = "iter"
    /\ idx > Len(olxAds)
    /\ IF IsLastPage(page, totalPages)
       THEN pc' = "send" /\ page' = page
       ELSE pc' = "fetch" /\ page' = page + 1
    /\ UNCHANGED <<source, redis, cause, HIGHLIGHT_RULES, max_refresh_time, new_ads, olxAds,
                   totalPages, idx, sendIdx, wStart, absentStart, fetched, extracted, sent, slept,
                   writes, hist, lastDone, afterDone>>

\* The ad the send loop is at.
CurrentAd == Reversed(new_ads)[sendIdx]

\* post_new_ads, lines 183-190: the first request for the ad.
Send ==
    /\ pc = "send"
    /\ sendIdx <= Len(new_ads)
    /\ \E resp \in Responses :
         /\ sent' = Append(sent, [ad |-> CurrentAd.url, resp |-> resp,
                                 query |-> ToSendQuery(CurrentAd)])
         /\ IF resp = "exc"
            THEN Die("transport") /\ UNCHANGED delivered
            ELSE IF IsRateLimited(resp)
            THEN /\ pc' = "backoff"
                 /\ UNCHANGED <<cause, HIGHLIGHT_RULES, max_refresh_time, new_ads, page, olxAds,
                                totalPages, idx, sendIdx, lastDone, delivered>>
            ELSE IF RaisesForStatus(resp)
            THEN Die("transport") /\ UNCHANGED delivered
            ELSE /\ pc' = "mark"
                 /\ delivered' = delivered \cup {CurrentAd.url}
                 /\ UNCHANGED <<cause, HIGHLIGHT_RULES, max_refresh_time, new_ads, page, olxAds,
                                totalPages, idx, sendIdx, lastDone>>
    /\ UNCHANGED <<source, redis, wStart, absentStart, fetched, extracted, slept, writes, confirmed,
                   collectedEver, afterDone>>

\* post_new_ads, lines 187-190: the backoff and the single retry.
Retry ==
    /\ pc = "backoff"
    /\ slept' = slept + BackoffSeconds
    /\ \E resp \in Responses :
         /\ sent' = Append(sent, [ad |-> CurrentAd.url, resp |-> resp,
                                 query |-> ToSendQuery(CurrentAd)])
         /\ IF resp = "exc" \/ RaisesForStatus(resp)
            THEN Die("transport") /\ UNCHANGED delivered
            ELSE /\ pc' = "mark"
                 /\ delivered' = delivered \cup {CurrentAd.url}
                 /\ UNCHANGED <<cause, HIGHLIGHT_RULES, max_refresh_time, new_ads, page, olxAds,
                                totalPages, idx, sendIdx, lastDone>>
    /\ UNCHANGED <<source, redis, wStart, absentStart, fetched, extracted, writes, confirmed,
                   collectedEver, afterDone>>

\* The watermark write batched: the local advances per delivery, redis is
\* written once, after the last delivery of the cycle.
Mark_Batched ==
    /\ pc = "mark"
    /\ LET m == IF ShouldAdvance(CurrentAd, max_refresh_time)
                THEN CurrentAd.refreshed ELSE max_refresh_time
       IN  /\ max_refresh_time' = m
           /\ IF sendIdx = Len(new_ads) /\ m > wStart
              THEN redis' = UpdateMaxRefreshTime(m) /\ writes' = writes + 1
              ELSE UNCHANGED <<redis, writes>>
    /\ confirmed' = confirmed \cup {CurrentAd.url}
    /\ sendIdx' = sendIdx + 1
    /\ pc' = "send"
    /\ UNCHANGED <<source, cause, HIGHLIGHT_RULES, new_ads, page, olxAds, totalPages, idx,
                   wStart, absentStart, fetched, extracted, sent, slept, delivered,
                   collectedEver, lastDone, afterDone>>

\* post_new_ads, lines 192-194: advance and persist the watermark.
Mark ==
    /\ pc = "mark"
    /\ IF ShouldAdvance(CurrentAd, max_refresh_time)
       THEN /\ max_refresh_time' = CurrentAd.refreshed
            /\ redis' = UpdateMaxRefreshTime(CurrentAd.refreshed)
            /\ writes' = writes + 1
       ELSE UNCHANGED <<max_refresh_time, redis, writes>>
    /\ confirmed' = confirmed \cup {CurrentAd.url}
    /\ sendIdx' = sendIdx + 1
    /\ pc' = "send"
    /\ UNCHANGED <<source, cause, HIGHLIGHT_RULES, new_ads, page, olxAds, totalPages, idx,
                   wStart, absentStart, fetched, extracted, sent, slept, delivered, collectedEver,
                   lastDone, afterDone>>

\* post_new_ads line 196 and __main__ line 204: the cycle is over.
FinishCycle ==
    /\ pc = "send"
    /\ sendIdx > Len(new_ads)
    /\ pc' = "sleep"
    /\ lastDone' = TRUE
    /\ UNCHANGED <<source, redis, cause, HIGHLIGHT_RULES, max_refresh_time, new_ads, page,
                   olxAds, totalPages, idx, sendIdx, wStart, absentStart, fetched, extracted, sent,
                   slept, writes, hist, afterDone>>

\* __main__, lines 202-204: the poll interval has passed.
Wake ==
    /\ pc = "sleep"
    /\ pc' = "start"
    /\ UNCHANGED <<source, redis, cause, HIGHLIGHT_RULES, max_refresh_time, new_ads, page,
                   olxAds, totalPages, idx, sendIdx, wStart, absentStart, fetched, extracted, sent,
                   slept, writes, hist, lastDone, afterDone>>

\* The process is killed (power loss, SIGKILL) at any point of its run.
Crash ==
    /\ pc \notin {"dead", "import", "start"}
    /\ Die("killed")
    /\ UNCHANGED <<source, redis, wStart, absentStart, fetched, extracted, sent, slept, writes, hist,
                   afterDone>>

\* The process is started again: module start-up, then __main__.
Restart ==
    /\ pc = "dead"
    /\ pc' = "import"
    /\ cause' = "none"
    /\ UNCHANGED <<source, HIGHLIGHT_RULES, redis, max_refresh_time, new_ads,
                   page, olxAds, totalPages, idx, sendIdx, wStart, absentStart,
                   fetched, extracted, sent, slept, writes, hist, lastDone,
                   afterDone>>

Next ==
    \/ Startup
    \/ StartCycle
    \/ FetchPage
    \/ FetchFail
    \/ WalkAd
    \/ NextPage
    \/ Send
    \/ Retry
    \/ Mark
    \/ FinishCycle
    \/ Wake
    \/ Crash
    \/ Restart

Spec == Init /\ [][Next]_vars

\* ------------------------------------------- the rule engine in the walker
\* One new organic ad, with every document and every configuration of rules.
InitWalk ==
    /\ listing = <<[refreshed |-> 1, is_promoted |-> FALSE]>>
    /\ redis = None
    /\ docs \in [1..1 -> Docs]
    /\ photos = << <<>> >>
    /\ config \in Configs
    /\ Boot

\* Start-up and the walk of get_ads, up to the end of the for loop of line 170.
NextWalk ==
    \/ Startup
    \/ StartCycle
    \/ FetchPage
    \/ WalkAd
    \/ NextPage

SpecWalk == InitWalk /\ [][NextWalk]_vars

\* ------------------------------------------------ the process with rules
\* Two new organic ads on one page, with every nesting of their documents and
\* every configuration of rules.
InitRules ==
    /\ listing = <<[refreshed |-> 2, is_promoted |-> FALSE],
                   [refreshed |-> 1, is_promoted |-> FALSE]>>
    /\ redis = None
    /\ docs \in [1..2 -> [params : {<<>>}, props : PropsKinds]]
    /\ photos = << <<>>, <<>> >>
    /\ config \in Configs
    /\ Boot

SpecRules == InitRules /\ [][Next]_vars

\* ------------------------------------------------ the process with photos
\* One organic ad with every number of photos.
InitPayload ==
    /\ listing = <<[refreshed |-> 1, is_promoted |-> FALSE]>>
    /\ redis \in {None} \cup {Isoformat(t) : t \in Times}
    /\ docs = <<PlainDoc>>
    /\ photos \in {<<PhotoUrls(n)>> : n \in 0..MaxPhotos}
    /\ config = <<>>
    /\ Boot

SpecPayload == InitPayload /\ [][Next]_vars

\* --------------------------------------------- the process, listing changing
\* Listings of organic ads, newest first.
InitChurn ==
    /\ listing \in {l \in Listings :
                       /\ \A i \in 1..Len(l) : ~l[i].is_promoted
                       /\ \A i \in 1..(Len(l) - 1) : l[i].refreshed >= l[i + 1].refreshed}
    /\ redis = None
    /\ docs = [p \in 1..Len(listing) |-> PlainDoc]
    /\ photos = [p \in 1..Len(listing) |-> <<>>]
    /\ config = <<>>
    /\ Boot

\* The source: a new organic ad is published and takes the head of the
\* listing, every other ad moving one position down.
Publish ==
    /\ published < MaxPublished
    /\ listing' = <<[refreshed |-> MaxTime, is_promoted |-> FALSE]>> \o listing
    /\ docs' = <<PlainDoc>> \o docs
    /\ photos' = << <<>> >> \o photos
    /\ published' = published + 1
    /\ UNCHANGED <<config, HIGHLIGHT_RULES, redis, pc, cause, max_refresh_time,
                   new_ads, page, olxAds, totalPages, idx, sendIdx, wStart,
                   absentStart, fetched, extracted, sent, slept, writes, hist,
                   lastDone, afterDone>>

NextChurn ==
    \/ Next
    \/ Publish

SpecChurn == InitChurn /\ [][NextChurn]_vars

\* ------------------------------------------------------------ properties
\* What the properties read of the listing and of the history, stated without
\* the operators of the walk.
WatermarkOf(v) == IF v = None THEN MinTime ELSE v[2]

OldOrganic(p, w) == ~listing[p].is_promoted /\ listing[p].refreshed <= w

\* Position of the first organic ad with refresh time <= w, or one past the
\* end of the listing when there is none.
FirstOldOrganic(w) ==
    LET S == {p \in 1..Len(listing) : OldOrganic(p, w)}
    IN  IF S = {} THEN Len(listing) + 1
        ELSE CHOOSE p \in S : \A q \in S : p <= q

PageOf(p) == ((p - 1) \div PageSize) + 1

Collected == {new_ads[i].url : i \in 1..Len(new_ads)}

\* The walk of this cycle is over and new_ads is the candidate list.
WalkDone == pc \in {"send", "backoff", "mark", "sleep"}

\* The process has ended, or has been started again and not yet begun a cycle.
Ended == {"dead", "import", "start"}

\* Positions in sent of the successful deliveries of this cycle.
Deliveries == {i \in 1..Len(sent) : sent[i].resp = "ok"}

\* Ads with refresh time > w among the first n of the listing, in source order.
RECURSIVE NewerAmong(_, _)
NewerAmong(n, w) ==
    IF n = 0 THEN <<>>
    ELSE IF listing[n].refreshed > w
         THEN Append(NewerAmong(n - 1, w), AdAt(n))
         ELSE NewerAmong(n - 1, w)

\* Organic ads appear in descending refresh order.
OrganicDescending ==
    \A p, q \in 1..Len(listing) :
        (p < q /\ ~listing[p].is_promoted /\ ~listing[q].is_promoted)
            => listing[p].refreshed >= listing[q].refreshed

\* C1: no organic ad with refresh time <= W is ever a candidate, and from the
\* first such ad in source order on the walk has halted: every candidate
\* precedes it and no page after its page is fetched.
C1_StopAtFirstOldOrganic ==
    LET s == FirstOldOrganic(wStart) IN
    /\ \A i \in 1..Len(new_ads) :
          /\ ~(~new_ads[i].is_promoted /\ new_ads[i].refreshed <= wStart)
          /\ new_ads[i].url < s
    /\ s <= Len(listing) =>
          \A i \in 1..Len(fetched) : fetched[i] <= PageOf(s)

\* C1 witness: the walk halted on page 1 at an old organic ad after collecting
\* one ad, a newer ad follows it, and page 2 was never fetched.
C1_Witness ==
    LET s == FirstOldOrganic(wStart) IN
    /\ pc = "send"
    /\ s <= Len(listing)
    /\ PageOf(s) < SourceTotalPages
    /\ Len(new_ads) = 1
    /\ fetched = <<1>>
    /\ \E p \in (s + 1)..Len(listing) : listing[p].refreshed > wStart

\* C2 (as claimed): of two ads delivered in one cycle the one delivered
\* earlier has the strictly smaller refresh time.
C2_StrictlyOldestFirst ==
    \A i, j \in Deliveries :
        i < j => listing[sent[i].ad].refreshed < listing[sent[j].ad].refreshed

\* C2 (amended): ads are delivered in the reverse of source order: of two ads
\* delivered in one cycle the one delivered earlier is later in the listing.
C2_ReverseSourceOrder ==
    \A i, j \in Deliveries : i < j => sent[i].ad > sent[j].ad

\* C2 witness: a completed cycle delivered a newer ad before an older one.
C2_Witness ==
    /\ pc = "sleep"
    /\ \E i, j \in Deliveries :
          /\ i < j
          /\ listing[sent[i].ad].refreshed > listing[sent[j].ad].refreshed
          /\ listing[sent[j].ad].is_promoted

\* C3 (as claimed): once a cycle has run to completion over the unchanged
\* listing, every ad that was ever a candidate has been delivered.
C3_NoAdLost == pc = "sleep" => collectedEver \subseteq delivered

\* C4: every change of the persisted watermark stores a value strictly
\* greater than the one persisted before, and never removes it.
C4_WatermarkOnlyIncreases ==
    [][redis' # redis =>
          (redis' # None /\ WatermarkOf(redis') > WatermarkOf(redis))]_vars

\* C4 witness: a cycle that wrote the watermark was then aborted.
C4_Witness ==
    /\ pc = "dead"
    /\ writes >= 1
    /\ WatermarkOf(redis) > wStart

\* C5 (as claimed): a transport error during fetch or delivery does not end
\* the process.
C5_DriverSurvivesTransportError == ~(pc = "dead" /\ cause = "transport")

\* C6: a cycle that directly follows a completed cycle collects no candidate,
\* makes no send attempt and writes no watermark.
C6_Idempotent ==
    afterDone => (new_ads = <<>> /\ sent = <<>> /\ writes = 0)

\* C6 witness: the second of two completed cycles has ended, over a listing
\* with a promoted ad, after at least two ads were delivered.
C6_Witness ==
    /\ afterDone
    /\ pc = "sleep"
    /\ Cardinality(delivered) >= 2
    /\ \E p \in 1..Len(listing) : listing[p].is_promoted
    /\ \E p \in 1..Len(listing) : ~listing[p].is_promoted

\* C7 (as claimed): with organic ads in descending refresh order the candidate
\* list is exactly the listing's ads with refresh time > W, in source order.
C7_AllNewerCollected ==
    (WalkDone /\ OrganicDescending) => new_ads = NewerAmong(Len(listing), wStart)

\* C7 (amended): the candidate list is exactly the ads with refresh time > W
\* that precede the first organic ad with refresh time <= W, in source order;
\* with organic ads in descending refresh order that includes every organic ad
\* with refresh time > W.
C7_NewerBeforeStopCollected ==
    WalkDone =>
        /\ new_ads = NewerAmong(FirstOldOrganic(wStart) - 1, wStart)
        /\ OrganicDescending =>
              \A p \in 1..Len(listing) :
                  (~listing[p].is_promoted /\ listing[p].refreshed > wStart)
                      => p \in Collected

\* C7 witness: the walk is over, it collected an ad, and a promoted ad with
\* refresh time > W on a later page than the stop was left out.
C7_Witness ==
    LET s == FirstOldOrganic(wStart) IN
    /\ WalkDone
    /\ OrganicDescending
    /\ Collected # {}
    /\ \E p \in (s + 1)..Len(listing) :
          /\ listing[p].is_promoted
          /\ listing[p].refreshed > wStart
          /\ PageOf(p) > PageOf(s)
          /\ p \notin Collected

\* C8: a promoted ad with refresh time <= W that precedes the first organic
\* ad with refresh time <= W is not a candidate and does not halt the walk:
\* every later ad with refresh time > W before that organic ad is a candidate,
\* on the same page and on later pages.
C8_OldPromotedSkipped ==
    LET s == FirstOldOrganic(wStart) IN
    WalkDone =>
        \A p \in 1..(s - 1) :
            (listing[p].is_promoted /\ listing[p].refreshed <= wStart) =>
                /\ p \notin Collected
                /\ \A q \in (p + 1)..(s - 1) :
                      listing[q].refreshed > wStart => q \in Collected
                /\ \A n \in PageOf(p)..PageOf(IF s <= Len(listing) THEN s ELSE s - 1) :
                      \E i \in 1..Len(fetched) : fetched[i] = n

\* C8 witness: an old promoted ad on page 1 was passed and a newer ad on
\* page 2 was collected.
C8_Witness ==
    /\ WalkDone
    /\ \E p \in 1..Len(listing) :
          /\ listing[p].is_promoted
          /\ listing[p].refreshed <= wStart
          /\ PageOf(p) = 1
          /\ \E q \in Collected : PageOf(q) > 1

\* C9: every ad delivered in a cycle has a refresh time strictly greater than
\* the watermark read at the start of the cycle, and an ad whose delivery and
\* watermark step completed is never delivered again.
C9_NoRedeliveryOfConfirmed ==
    /\ [](\A i \in Deliveries : listing[sent[i].ad].refreshed > wStart)
    /\ [][(Len(sent') = Len(sent) + 1 /\ sent'[Len(sent')].resp = "ok")
             => sent'[Len(sent')].ad \notin confirmed]_vars

\* C9 witness: after an aborted cycle had confirmed an ad, a later cycle
\* delivered another ad.
C9_Witness ==
    /\ pc = "mark"
    /\ \E c \in confirmed : c \notin Collected
    /\ CurrentAd.url \notin confirmed

\* C10: an ad has at most two send attempts in a cycle, adjacent, the second
\* only after a 429 on the first and after one backoff; a 429 on the first
\* attempt is followed by the retry of the same ad; any other failed attempt
\* is the last thing the cycle does.
C10_SingleRetryAfterRateLimit ==
    LET first(i) == i = 1 \/ sent[i - 1].ad # sent[i].ad
        retries == {i \in 1..Len(sent) : ~first(i)}
    IN
    /\ \A i \in retries : first(i - 1) /\ sent[i - 1].resp = "rate"
    /\ \A i, j \in 1..Len(sent) :
          (i < j /\ sent[i].ad = sent[j].ad) => j = i + 1
    /\ \A i \in 1..Len(sent) :
          (first(i) /\ sent[i].resp = "rate" /\ i = Len(sent)) => pc \in {"backoff"} \cup Ended
    /\ \A i \in 1..Len(sent) :
          (sent[i].resp # "ok" /\ ~(first(i) /\ sent[i].resp = "rate"))
              => (i = Len(sent) /\ pc \in Ended)
    /\ slept = BackoffSeconds * Cardinality(retries)

\* C10 witness: the retry after a 429 was rate-limited too and the cycle was
\* aborted.
C10_Witness ==
    /\ pc = "dead"
    /\ cause = "transport"
    /\ Len(sent) >= 2
    /\ sent[Len(sent)].resp = "rate"
    /\ sent[Len(sent) - 1].resp = "rate"
    /\ sent[Len(sent) - 1].ad = sent[Len(sent)].ad

\* The greatest of w and the refresh times of the ads delivered at the
\* positions I of sent.
MaxDelivered(w, I) ==
    LET T == {w} \cup {listing[sent[i].ad].refreshed : i \in I}
    IN  CHOOSE t \in T : \A u \in T : u <= t

\* The delivery whose watermark step has not run yet (the process is between
\* the 200 response and lines 192-194).
Pending == IF pc = "mark" THEN {Len(sent)} ELSE {}

\* C11: the watermark is persisted per delivery: at every send attempt, during
\* the backoff and at the end of the loop the persisted watermark is the
\* greatest of the watermark read at cycle start and the refresh times of the
\* ads delivered so far in the cycle; right after a 200 response only the write
\* for that one ad is outstanding, and it is made before the next send attempt;
\* a failed attempt leaves the persisted watermark as it is.
C11_WatermarkPerDelivery ==
    /\ [](pc \in {"send", "backoff", "mark", "sleep"} =>
             WatermarkOf(redis) = MaxDelivered(wStart, Deliveries \ Pending))
    /\ [][(Len(sent') = Len(sent) + 1 /\ sent'[Len(sent')].resp # "ok")
             => redis' = redis]_vars
    /\ [][(Len(sent') = Len(sent) + 1 /\ sent # <<>>
              /\ sent'[Len(sent')].ad # sent[Len(sent)].ad)
             => WatermarkOf(redis) = MaxDelivered(wStart, Deliveries)]_vars

\* C11 witness: the second ad of a cycle is about to be sent and the
\* watermark of the first, delivered, ad is already persisted.
C11_Witness ==
    /\ pc = "send"
    /\ sendIdx = 2
    /\ sendIdx <= Len(new_ads)
    /\ writes = 1
    /\ WatermarkOf(redis) > wStart
    /\ WatermarkOf(redis) < CurrentAd.refreshed

AllOrganic == \A p \in 1..Len(listing) : ~listing[p].is_promoted

\* The case of C12: the cycle read no watermark, and the listing is one page
\* of organic ads in descending refresh order.
FirstRunCase ==
    /\ absentStart
    /\ Len(listing) <= PageSize
    /\ AllOrganic
    /\ OrganicDescending

\* C12: on a first run (watermark absent) over a single page of organic ads
\* in descending refresh order, the watermark is read as the minimum time,
\* every ad is collected, the ads are delivered in ascending refresh order,
\* and after the cycle the persisted watermark is the largest refresh time.
C12_FirstRun ==
    FirstRunCase =>
        /\ wStart = MinTime
        /\ WalkDone => Collected = 1..Len(listing)
        /\ \A i, j \in Deliveries :
              i < j => listing[sent[i].ad].refreshed <= listing[sent[j].ad].refreshed
        /\ (pc = "sleep" /\ listing # <<>>) =>
              /\ {sent[i].ad : i \in Deliveries} = 1..Len(listing)
              /\ redis # None
              /\ \A p \in 1..Len(listing) : listing[p].refreshed <= redis[2]
              /\ \E p \in 1..Len(listing) : listing[p].refreshed = redis[2]

\* C12 witness: a first run over a full page of organic ads with distinct
\* refresh times has delivered them all.
C12_Witness ==
    /\ FirstRunCase
    /\ pc = "sleep"
    /\ Len(listing) = PageSize
    /\ \A p, q \in 1..Len(listing) : p < q => listing[p].refreshed > listing[q].refreshed
    /\ Cardinality(Deliveries) = Len(listing)

\* C18: the pages fetched in a cycle are 1, 2, 3, ... in this order, each
\* once; page p+1 is fetched only if no organic ad with refresh time <= W
\* was met on pages 1..p and p is less than the reported number of pages; at
\* most max(1, totalPages) pages are fetched.
C18_Pagination ==
    /\ \A i \in 1..Len(fetched) : fetched[i] = i
    /\ \A i \in 2..Len(fetched) :
          /\ i - 1 < SourceTotalPages
          /\ FirstOldOrganic(wStart) > (i - 1) * PageSize
    /\ Len(fetched) <= (IF SourceTotalPages > 1 THEN SourceTotalPages ELSE 1)

\* C18 witness: the walk went through every page of a listing of more than
\* one page and ended there.
C18_Witness ==
    /\ WalkDone
    /\ SourceTotalPages >= 2
    /\ Len(fetched) = SourceTotalPages
    /\ fetched[Len(fetched)] = SourceTotalPages

\* ------------------------------------------------------------ rule engine
\* The tags a value map holds for the value v.
TagsFor(value_map, v) ==
    {value_map[k][2] : k \in {k \in 1..Len(value_map) : value_map[k][1] = v}}

\* The tags the rule emits for the document.
EmittedTags(rule, olxAd) ==
    IF rule.cls = "ParamRule"
    THEN UNION {LET value == olxAd.params[k].normalizedValue IN
                UNION {TagsFor(rule.value_map, value.v[m]) : m \in 1..Len(value.v)}
                : k \in {k \in 1..Len(olxAd.params) : olxAd.params[k].key = rule.key}}
    ELSE {rule.value_map[k][2] :
            k \in {k \in 1..Len(rule.value_map) :
                     Match(rule.match, rule.value_map[k][1],
                           GetPropValue(rule.path, olxAd))}}

\* The tags the rules emit for the one ad of the listing.
AllEmittedTags ==
    UNION {EmittedTags(HIGHLIGHT_RULES[i], RawAt(1)) : i \in 1..Len(HIGHLIGHT_RULES)}

\* C13: the display string of a collected ad holds each distinct emitted tag
\* exactly once and intact, and nothing else: it is the concatenation of the
\* distinct tags in some order.
C13_WholeTagDedup ==
    new_ads # <<>> =>
        \E order \in Arrangements(AllEmittedTags) :
            new_ads[1].highlights = Concat(order)

\* The configuration holds a descriptor parse_rules does not accept.
InvalidConfig ==
    \E i \in 1..Len(config) :
        \/ config[i].type \notin {"param", "prop"}
        \/ config[i].type = "prop" /\ config[i].match \notin {"exact", "contains"}

\* C14: with a rule of unrecognized type, or a path rule whose comparator is
\* neither exact nor contains, in the configuration, the process ends at
\* start-up with no rules, and no page is fetched, nothing is sent and the
\* watermark is neither read nor written, however often it is started.
C14_InvalidConfigFailsAtStartup ==
    InvalidConfig =>
        /\ pc \in {"import", "dead"}
        /\ pc = "dead" => cause = "config"
        /\ HIGHLIGHT_RULES = <<>>
        /\ fetched = <<>>
        /\ sent = <<>>
        /\ writes = 0
        /\ ~absentStart
        /\ redis = None

\* C14 witness: the process has ended at start-up on a configuration whose
\* first descriptor is valid and whose second is not.
C14_Witness ==
    /\ pc = "dead"
    /\ cause = "config"
    /\ Len(config) = 2
    /\ config[1].type = "param"
    /\ InvalidConfig

\* The path of the rule leads through a field the document does not have.
PathAbsent(rule, olxAd) ==
    /\ rule.cls = "PropRule"
    /\ \E n \in 1..Len(rule.path) :
          /\ SubSeq(rule.path, 1, n) \notin olxAd.props.dicts
          /\ \A l \in olxAd.props.leaves : l[1] # SubSeq(rule.path, 1, n)

\* The walk is at a document that lacks a field on the path of some rule.
AtDocumentWithAbsentField ==
    /\ pc = "iter"
    /\ idx <= Len(olxAds)
    /\ \E i \in 1..Len(HIGHLIGHT_RULES) : PathAbsent(HIGHLIGHT_RULES[i], olxAds[idx])

\* C15: when the walk reaches a document that lacks a field on the path of a
\* path rule, the process ends there: the ad is not collected, and the cycle
\* has sent nothing and written no watermark.
C15_AbsentFieldEndsCycle ==
    /\ [](cause = "document" =>
            /\ pc = "dead"
            /\ sent = <<>>
            /\ writes = 0
            /\ redis = None)
    /\ [][AtDocumentWithAbsentField =>
            /\ pc' = "dead"
            /\ cause' \in {"document", "killed"}
            /\ collectedEver' = collectedEver
            /\ UNCHANGED <<redis, sent, writes, delivered>>]_vars

\* C15 witness: the first ad of the page was collected, the second lacks a
\* field, and the process has ended with nothing delivered.
C15_Witness ==
    /\ cause = "document"
    /\ collectedEver = {1}
    /\ delivered = {}
    /\ Len(config) = 2

\* What one attribute contributes to the output of an attribute rule.
RECURSIVE Flatten(_)
Flatten(pieces) ==
    IF pieces = <<>> THEN <<>>
    ELSE Flatten(SubSeq(pieces, 1, Len(pieces) - 1)) \o pieces[Len(pieces)]

TagOrNothing(rule, v) ==
    IF TagsFor(rule.value_map, v) = {} THEN <<>>
    ELSE CHOOSE t \in TagsFor(rule.value_map, v) : TRUE

Contribution(rule, param) ==
    IF param.key # rule.key THEN <<>>
    ELSE IF param.normalizedValue.list
    THEN Flatten([m \in 1..Len(param.normalizedValue.v) |->
                    TagOrNothing(rule, param.normalizedValue.v[m])])
    ELSE TagOrNothing(rule, param.normalizedValue.v[1])

\* C16: the output of an attribute rule is, attribute by attribute in
\* document order, the mapped tag of each member of a list value in order
\* (nothing for an unmapped member), the mapped tag of a scalar value or
\* nothing, and nothing for an attribute with another key; the document is
\* as the source returned it.
C16_AttributeRule ==
    \A i \in 1..Len(extracted) :
        (i <= Len(HIGHLIGHT_RULES) /\ HIGHLIGHT_RULES[i].cls = "ParamRule") =>
            /\ extracted[i] =
                 Flatten([k \in 1..Len(docs[1].params) |->
                            Contribution(HIGHLIGHT_RULES[i], docs[1].params[k])])
            /\ olxAds = <<RawAt(1)>>

\* C16 witness: an attribute rule has run on a document with a list value
\* with mapped and unmapped members, followed by a mapped scalar of the same
\* key.
C16_Witness ==
    /\ Len(extracted) >= 1
    /\ HIGHLIGHT_RULES[1].cls = "ParamRule"
    /\ Len(docs[1].params) = 2
    /\ docs[1].params[1] = [key |-> "pets", normalizedValue |-> List(<<Dog, Fish, Cat>>)]
    /\ docs[1].params[2] = [key |-> "pets", normalizedValue |-> Scalar(Cat)]
    /\ extracted[1] = <<"a", "b", "a", "a">>

\* ---------------------------------------------------------------- payload
Least(a, b) == IF a < b THEN a ELSE b

\* The items of the media parameter of a query.
MediaItems(query) == query.media[1][2][2]

\* C17: the query of every send attempt has the shape the photo count n of
\* its ad gives: n = 0 a text message; n = 1 one photo with the text as
\* caption; n >= 2 a media group of the first min(n, MaxMedia) photos in
\* order, captioned on the first item only.
C17_PayloadShape ==
    \A i \in 1..Len(sent) :
        LET urls == photos[sent[i].ad]
            n == Len(urls)
            query == sent[i].query
        IN
        /\ n = 0 =>
              /\ query.method = "sendMessage"
              /\ query.text # <<>>
              /\ query.photo = <<>> /\ query.caption = <<>> /\ query.media = <<>>
        /\ n = 1 =>
              /\ query.method = "sendPhoto"
              /\ query.photo = <<Quote(urls[1])>>
              /\ query.caption # <<>>
              /\ query.text = <<>> /\ query.media = <<>>
        /\ n >= 2 =>
              /\ query.method = "sendMediaGroup"
              /\ query.text = <<>> /\ query.photo = <<>> /\ query.caption = <<>>
              /\ Len(MediaItems(query)) = Least(n, MaxMedia)
              /\ \A k \in 1..Len(MediaItems(query)) :
                    /\ MediaItems(query)[k].media = urls[k]
                    /\ (MediaItems(query)[k].caption # <<>>) <=> (k = 1)

\* C17 witness: an ad with more than MaxMedia photos was sent as a group of
\* MaxMedia items.
C17_Witness ==
    /\ sent # <<>>
    /\ Len(photos[1]) > MaxMedia
    /\ sent[1].query.method = "sendMediaGroup"
    /\ Len(MediaItems(sent[1].query)) = MaxMedia

\* ------------------------------------------------------- changing listing
\* C19: within a cycle no ad url is delivered more than once, also when the
\* listing changes between two page fetches.
C19_NoDuplicateDelivery ==
    \A i, j \in Deliveries : i < j => sent[i].ad # sent[j].ad

====
